---- MODULE Spec2Model ----
(***************************************************************************)
(* wger exercises: the REST endpoints of wger/exercises/api/views.py, the  *)
(* Exercise model of wger/exercises/models/exercise.py and the history     *)
(* views of wger/exercises/views/history.py, as a state machine.           *)
(*                                                                         *)
(* Strings that the code inspects (query parameters, names, primary keys   *)
(* taken from the URL) are sequences of one-character strings.             *)
(***************************************************************************)
EXTENDS Integers, Sequences, FiniteSets, TLC

VARIABLES
    exercises,   \* Exercise table: id -> [name, descLen, language, exercise_base]
    stored,      \* resource -> set of ids of the rows of the other tables
    history,     \* Exercise.history: sequence of historical records, oldest first
    actstream,   \* the activity stream: sequence of [actor, verb, action_object]
    fragCache,   \* template fragment cache: set of <<fragment, language id>>
    canonCache,  \* workout ids whose canonical form is cached
    call,        \* the Exercise.save / Exercise.delete call in progress
    request,     \* the request being answered
    response     \* the answer to it

vars == <<exercises, stored, history, actstream, fragCache, canonCache, call,
          request, response>>

\* Python's None where a string is expected, and where a row id is expected
\* (SQL NULL in a foreign key column; ids start at 1).
None == <<"None">>
NoneId == 0

\* The most historical records of Exercise a run writes.
MaxHistory == 2

\* The most activity stream entries a run writes.
MaxLog == 2

\* The most historical records a run writes while the diff view is exercised.
MaxRevisions == 4

\* ------------------------------------------------------------------ strings

Digits == {"0", "1", "2", "3", "4", "5", "6", "7", "8", "9"}

DigitValue(c) ==
    CASE c = "0" -> 0 [] c = "1" -> 1 [] c = "2" -> 2 [] c = "3" -> 3
      [] c = "4" -> 4 [] c = "5" -> 5 [] c = "6" -> 6 [] c = "7" -> 7
      [] c = "8" -> 8 [] c = "9" -> 9

RECURSIVE LStrip(_)
LStrip(s) == IF s # <<>> /\ Head(s) = " " THEN LStrip(Tail(s)) ELSE s

RECURSIVE RStrip(_)
RStrip(s) ==
    IF s # <<>> /\ s[Len(s)] = " " THEN RStrip(SubSeq(s, 1, Len(s) - 1)) ELSE s

Strip(s) == RStrip(LStrip(s))

\* The part of an integer literal after the optional sign.
Unsigned(s) == IF s # <<>> /\ Head(s) \in {"+", "-"} THEN Tail(s) ELSE s

\* Python's integer literal: digits, single underscores only between digits.
DigitGroup(d) ==
    /\ d # <<>>
    /\ \A i \in 1..Len(d) : d[i] \in Digits \cup {"_"}
    /\ d[1] \in Digits
    /\ d[Len(d)] \in Digits
    /\ \A i \in 1..(Len(d) - 1) : ~(d[i] = "_" /\ d[i + 1] = "_")

\* int(s) returns (TRUE) or raises ValueError (FALSE).
IntOk(s) == DigitGroup(Unsigned(Strip(s)))

RECURSIVE DigitsValue(_, _)
DigitsValue(d, acc) ==
    IF d = <<>> THEN acc
    ELSE IF Head(d) = "_" THEN DigitsValue(Tail(d), acc)
    ELSE DigitsValue(Tail(d), 10 * acc + DigitValue(Head(d)))

\* int(s) for a string on which it does not raise.
IntValue(s) ==
    LET t == Strip(s)
        v == DigitsValue(Unsigned(t), 0)
    IN  IF t # <<>> /\ Head(t) = "-" THEN 0 - v ELSE v

\* str.split(sep) with a one-character separator.
RECURSIVE Split(_, _)
Split(s, sep) ==
    IF \A i \in 1..Len(s) : s[i] # sep THEN <<s>>
    ELSE LET k == CHOOSE i \in 1..Len(s) :
                      s[i] = sep /\ \A j \in 1..(i - 1) : s[j] # sep
         IN  <<SubSeq(s, 1, k - 1)>> \o Split(SubSeq(s, k + 1, Len(s)), sep)

Range(f) == {f[i] : i \in DOMAIN f}

\* ------------------------------------------------------------- fixed tables

\* core.Language rows: id -> short name.
Language == (1 :> <<"d", "e">>) @@ (2 :> <<"e", "n">>)

\* ExerciseCategory rows: id -> name.
ExerciseCategory == (1 :> <<"A", "b", "s">>) @@ (2 :> <<"A", "r", "m", "s">>)

\* ExerciseBase rows.  license_id is the AbstractLicenseModel foreign key.
ExerciseBase ==
    (1 :> [category |-> 1, muscles |-> {1, 2}, muscles_secondary |-> {3},
           equipment |-> {1}, license |-> 1])
 @@ (2 :> [category |-> 2, muscles |-> {2}, muscles_secondary |-> {},
           equipment |-> {1, 2}, license |-> 2])
 @@ (3 :> [category |-> 1, muscles |-> {}, muscles_secondary |-> {1, 2},
           equipment |-> {}, license |-> 1])

\* Alias rows: id -> [exercise, alias].
Alias ==
    (1 :> [exercise |-> 1, alias |-> <<"x", "A", "B">>])
 @@ (2 :> [exercise |-> 1, alias |-> <<"a", "b", "c">>])
 @@ (3 :> [exercise |-> 3, alias |-> <<"a">>])

\* ExerciseImage rows: id -> [exercise_base, is_main, accepted].
ExerciseImage ==
    (1 :> [exercise_base |-> 1, is_main |-> TRUE, accepted |-> TRUE])
 @@ (2 :> [exercise_base |-> 2, is_main |-> TRUE, accepted |-> FALSE])

\* The rows of the other tables while the read-only endpoints are exercised.
QueryStored ==
    [exercisebase |-> DOMAIN ExerciseBase, exerciseimage |-> DOMAIN ExerciseImage,
     alias |-> DOMAIN Alias, exercisecomment |-> {}, variation |-> {}]

\* Exercise.history and the activity stream that go with those rows: the
\* three rows were created, the first was then renamed.
QueryHistory(rows) ==
    <<[id |-> 1, history_type |-> "+", row |-> [rows[1] EXCEPT !.name = <<"A">>]],
      [id |-> 2, history_type |-> "+", row |-> rows[2]],
      [id |-> 3, history_type |-> "+", row |-> rows[3]],
      [id |-> 1, history_type |-> "~", row |-> rows[1]]>>

QueryStream ==
    <<[actor |-> "editor", verb |-> "created", action_object |-> <<"translation", 1>>],
      [actor |-> "editor", verb |-> "updated", action_object |-> <<"translation", 1>>]>>

\* The Exercise rows the read-only endpoints are exercised on; the third row's
\* exercise_base is b (the column is nullable).
QueryExercises(b) ==
    (1 :> [name |-> <<"A", "b">>, descLen |-> 40, language |-> 2, exercise_base |-> 1])
 @@ (2 :> [name |-> <<"a", "b">>, descLen |-> 40, language |-> 1, exercise_base |-> 2])
 @@ (3 :> [name |-> <<"b">>, descLen |-> 40, language |-> 2, exercise_base |-> b])

\* ------------------------------------------------------------ request cycle

NoRequest == [handler |-> "none"]

\* The worker is free: no request is being answered.
Idle == request = NoRequest

\* The Response object is returned to the framework, which sends it; the
\* worker is free for the next request.
Deliver ==
    /\ response # NoRequest
    /\ request' = NoRequest
    /\ response' = NoRequest
    /\ UNCHANGED <<exercises, stored, history, actstream, fragCache, canonCache,
                   call>>

\* ------------------------------------------------- ExerciseViewSet.get_queryset

\* Python truthiness of a query parameter (None and '' are false).
Truthy(v) == v # None /\ v # <<>>

\* [int(m) for m in s.split(',')] returns (TRUE) or raises ValueError.
IntListOk(s) == \A p \in Range(Split(s, ",")) : IntOk(p)

IntList(s) == {IntValue(p) : p \in Range(Split(s, ","))}

\* exercise_base of a row as the join sees it: NULL joins nothing.
BaseOf(e) == exercises[e].exercise_base

\* qs.filter(exercise_base__<fk>_id=v): the rows kept keep their multiplicity.
FilterEq(qs, field, v) ==
    [e \in DOMAIN qs |->
        IF BaseOf(e) # NoneId /\ ExerciseBase[BaseOf(e)][field] = v THEN qs[e] ELSE 0]

\* qs.filter(exercise_base__<m2m>__in=ids): one result row per matching
\* related row, so the multiplicity is multiplied by the number of matches.
FilterIn(qs, field, ids) ==
    [e \in DOMAIN qs |->
        IF BaseOf(e) # NoneId
        THEN qs[e] * Cardinality(ExerciseBase[BaseOf(e)][field] \cap ids)
        ELSE 0]

\* if v: try: qs = qs.filter(...=int(v)) except ValueError: logger.info(...)
ApplyScalar(qs, field, v) ==
    IF Truthy(v) /\ IntOk(v) THEN FilterEq(qs, field, IntValue(v)) ELSE qs

\* The element-wise slip: bad elements dropped, the rest still filtered on.
ApplyListLenient(qs, field, v) ==
    IF Truthy(v)
    THEN FilterIn(qs, field,
                  {IntValue(p) : p \in {x \in Range(Split(v, ",")) : IntOk(x)}})
    ELSE qs

\* if v: try: qs = qs.filter(...__in=[int(m) for m in v.split(',')])
\*        except ValueError: logger.info(...)
ApplyList(qs, field, v) ==
    IF Truthy(v) /\ IntListOk(v) THEN FilterIn(qs, field, IntList(v)) ELSE qs

ScalarParams == {"category", "license"}
ListParams == {"muscles", "muscles_secondary", "equipment"}
FilterParams == ScalarParams \cup ListParams

\* The parameters whose value made int() raise: one logger.info line each.
ValueErrors(params) ==
    {p \in ScalarParams : Truthy(params[p]) /\ ~IntOk(params[p])}
    \cup {p \in ListParams : Truthy(params[p]) /\ ~IntListOk(params[p])}

\* The queryset get_queryset returns: Exercise.objects.all(), then the five
\* filters in the order of the code.
get_queryset(params) ==
    LET q0 == [e \in DOMAIN exercises |-> 1]
        q1 == ApplyScalar(q0, "category", params.category)
        q2 == ApplyList(q1, "muscles", params.muscles)
        q3 == ApplyList(q2, "muscles_secondary", params.muscles_secondary)
        q4 == ApplyList(q3, "equipment", params.equipment)
    IN  ApplyScalar(q4, "license", params.license)

ScalarValues ==
    {None, <<"1">>, <<" ", "2">>, <<"x">>, <<"1", ",", "2">>}
ListValues ==
    {None, <<>>, <<"1">>, <<"+", "1", ",", "2">>, <<"1", ",", "x">>, <<"x">>}

FilterRequests ==
    [category : ScalarValues, license : ScalarValues, muscles : ListValues,
     muscles_secondary : ListValues, equipment : ListValues]

\* GET /api/v2/exercise/?category=..&muscles=..&...
ExerciseList ==
    \E params \in FilterRequests :
        /\ Idle
        /\ request' = [handler |-> "exercise-list", params |-> params]
        /\ response' = [handler |-> "exercise-list", status |-> 200,
                        body |-> get_queryset(params),
                        info |-> ValueErrors(params)]
        /\ UNCHANGED <<exercises, stored, history, actstream, fragCache,
                       canonCache, call>>

\* --------------------------------------------------------------------- search

\* The characters of the names in use, in code point order.
Chars == <<"A", "B", "a", "b", "c", "m", "r", "s", "x", "z">>

CharCode(c) == CHOOSE i \in 1..Len(Chars) : Chars[i] = c

\* str.lower() / SQL UPPER() folding of one character.
Lower(c) == CASE c = "A" -> "a" [] c = "B" -> "b" [] OTHER -> c

LowerStr(s) == [i \in 1..Len(s) |-> Lower(s[i])]

\* name__icontains=q: q occurs in s, letter case ignored.
IContains(s, q) ==
    \E i \in 0..(Len(s) - Len(q)) :
        LowerStr(SubSeq(s, i + 1, i + Len(q))) = LowerStr(q)

\* s sorts before t (ORDER BY on a text column).
RECURSIVE StrLess(_, _)
StrLess(s, t) ==
    IF t = <<>> THEN FALSE
    ELSE IF s = <<>> THEN TRUE
    ELSE IF Head(s) = Head(t) THEN StrLess(Tail(s), Tail(t))
    ELSE CharCode(Head(s)) < CharCode(Head(t))

\* LanguageConfig rows for SHOW_ITEM_EXERCISES: language id -> the ids of
\* the languages whose exercises are shown to it.
LanguageConfig == (1 :> {1, 2}) @@ (2 :> {2})

\* The language of the request: the one with that short name, else English.
load_language(language_code) ==
    IF \E l \in DOMAIN Language : Language[l] = language_code
    THEN CHOOSE l \in DOMAIN Language : Language[l] = language_code
    ELSE 2

load_item_languages(language_code) == LanguageConfig[load_language(language_code)]

\* Exercise LEFT OUTER JOIN Alias: one row <<exercise, alias>> per alias of
\* the exercise, one row <<exercise, NoneId>> for an exercise without alias.
AliasesOf(e) == {a \in stored["alias"] : Alias[a].exercise = e}

JoinAlias ==
    {<<e, a>> : e \in DOMAIN exercises, a \in stored["alias"] \cup {NoneId}}

NameLookupRows ==
    {r \in JoinAlias :
        IF AliasesOf(r[1]) = {} THEN r[2] = NoneId ELSE r[2] \in AliasesOf(r[1])}

\* Q(name__icontains=q) | Q(alias__alias__icontains=q), language__in=languages
name_lookup(q, languages) ==
    {r \in NameLookupRows :
        /\ \/ IContains(exercises[r[1]].name, q)
           \/ r[2] # NoneId /\ IContains(Alias[r[2]].alias, q)
        /\ exercises[r[1]].language \in languages}

\* The query without DISTINCT: every joined row is a result row.
NotDistinct(rows) == rows

\* .distinct(): SELECT DISTINCT over the Exercise columns (and the ORDER BY
\* column, a function of the exercise); the alias columns are not selected.
Distinct(rows) == {<<r[1], NoneId>> : r \in rows}

\* exercise.category.name; the exercise has a base.
CategoryName(e) == ExerciseCategory[ExerciseBase[BaseOf(e)].category]

\* order_by('exercise_base__category__name', 'name'): r does not sort after u.
OrderedBefore(r, u) ==
    \/ StrLess(CategoryName(r[1]), CategoryName(u[1]))
    \/ /\ CategoryName(r[1]) = CategoryName(u[1])
       /\ ~StrLess(exercises[u[1]].name, exercises[r[1]].name)

\* The orders in which the database may return the rows (ties are its choice).
Orderings(rows) ==
    LET n == Cardinality(rows)
    IN  {s \in [1..n -> rows] :
            /\ \A i, j \in 1..n : i # j => s[i] # s[j]
            /\ \A i \in 1..(n - 1) : OrderedBefore(s[i], s[i + 1])}

\* Exercise.main_image: images.accepted().filter(is_main=True).first()
main_image(e) ==
    LET imgs == {i \in stored["exerciseimage"] :
                    /\ ExerciseImage[i].exercise_base = BaseOf(e)
                    /\ ExerciseImage[i].accepted
                    /\ ExerciseImage[i].is_main}
    IN  IF imgs = {} THEN NoneId
        ELSE CHOOSE i \in imgs : \A j \in imgs : i <= j

\* gettext of a category name for which the catalogue has no translation.
Gettext(s) == s

exercise_json(e) ==
    [value |-> exercises[e].name,
     data |-> [id |-> e,
               name |-> exercises[e].name,
               category |-> Gettext(CategoryName(e)),
               image |-> main_image(e),
               image_thumbnail |-> main_image(e)]]

Terms == {None, <<>>, <<"a">>, <<"A", "B">>, <<"b">>, <<"z">>}
LanguageCodes == {None, <<"d", "e">>, <<"e", "n">>, <<"x", "x">>}

\* GET /api/v2/exercise/search/?term=..&language=..
search ==
    \E q \in Terms, code \in LanguageCodes :
        /\ Idle
        /\ request' = [handler |-> "search", term |-> q, language |-> code]
        /\ IF ~Truthy(q)
           THEN response' = [handler |-> "search", status |-> 200,
                             data |-> [kind |-> "dict", value |-> <<>>]]
           ELSE LET rows == Distinct(name_lookup(q, load_item_languages(code)))
                IN  IF \E r \in rows : BaseOf(r[1]) = NoneId
                    THEN \* exercise.main_image reads self.exercise_base.exerciseimage_set
                         response' = [handler |-> "search", status |-> 500,
                                      data |-> [kind |-> "error",
                                                value |-> "AttributeError"]]
                    ELSE \E order \in Orderings(rows) :
                         response' =
                             [handler |-> "search", status |-> 200,
                              data |-> [kind |-> "dict",
                                        value |-> ("suggestions" :>
                                            [i \in DOMAIN order |->
                                                exercise_json(order[i][1])])]]
        /\ UNCHANGED <<exercises, stored, history, actstream, fragCache,
                       canonCache, call>>

\* ------------------------------------------------ ExerciseImageViewSet.thumbnails

\* settings.THUMBNAIL_ALIASES: the alias names aliases.all() yields.
ThumbnailAliases == {"micro", "micro_cropped", "thumbnail"}

\* ExerciseImage.objects.get(pk=pk) with pk the string taken from the URL:
\* the id of the row, DoesNotExist, or the ValueError of the id conversion.
GetImage(pk) ==
    IF ~IntOk(pk) THEN [raised |-> "ValueError", id |-> NoneId]
    ELSE IF IntValue(pk) \notin stored["exerciseimage"]
    THEN [raised |-> "DoesNotExist", id |-> NoneId]
    ELSE [raised |-> "", id |-> IntValue(pk)]

\* except ExerciseImage.DoesNotExist: return Response([])
ThumbnailsMiss == [kind |-> "list", value |-> <<>>]

PkValues == {<<"1">>, <<"2">>, <<"9">>, <<"x">>}

\* GET /api/v2/exerciseimage/<pk>/thumbnails/
thumbnails ==
    \E pk \in PkValues :
        /\ Idle
        /\ request' = [handler |-> "thumbnails", pk |-> pk]
        /\ LET image == GetImage(pk)
           IN  response' =
                 CASE image.raised = "DoesNotExist" ->
                        [handler |-> "thumbnails", status |-> 200,
                         data |-> ThumbnailsMiss]
                   [] image.raised = "ValueError" ->
                        [handler |-> "thumbnails", status |-> 500,
                         data |-> [kind |-> "error", value |-> "ValueError"]]
                   [] OTHER ->
                        [handler |-> "thumbnails", status |-> 200,
                         data |-> [kind |-> "dict",
                                   value |->
                                     [k \in ThumbnailAliases \cup {"original"} |->
                                        IF k = "original"
                                        THEN [url |-> <<"original", image.id>>]
                                        ELSE [url |-> <<k, image.id>>,
                                              settings |-> k]]]]
        /\ UNCHANGED <<exercises, stored, history, actstream, fragCache,
                       canonCache, call>>

\* -------------------------------------------------------------- history views

Users == {"admin", "editor", "guest"}

\* The permissions each user holds.
UserPermissions ==
    [admin |-> {"exercises.change_exercise", "exercises.add_exercise"},
     editor |-> {"exercises.add_exercise"},
     guest |-> {}]

has_perm(user, perm) == perm \in UserPermissions[user]

\* A view without the decorator: every requester passes.
NoPermissionRequired(user, perm) == TRUE

\* @permission_required(perm): the view runs only if the test passes,
\* otherwise the requester is redirected to the login page.
permission_required(user, perm) == has_perm(user, perm)

LoginRedirect(name) ==
    [handler |-> name, status |-> 302, read |-> {},
     data |-> [kind |-> "redirect", value |-> "login"]]

\* HistoryModes.__members__
HistoryModes == [CREATED |-> "created", UPDATED |-> "updated"]

\* GET history/overview
overview ==
    \E user \in Users :
        /\ Idle
        /\ request' = [handler |-> "overview", user |-> user]
        /\ response' =
             IF permission_required(user, "exercises.change_exercise")
             THEN [handler |-> "overview", status |-> 200, read |-> {"actstream"},
                   data |-> [kind |-> "html",
                             value |-> [template |-> "history/list.html",
                                        stream |-> actstream,
                                        modes |-> HistoryModes]]]
             ELSE LoginRedirect("overview")
        /\ UNCHANGED <<exercises, stored, history, actstream, fragCache,
                       canonCache, call>>

\* The record written just before history[i], of whichever Exercise.
PrevRowInTable(i) == i - 1

\* entry.prev_record of history[i]: the index of the latest earlier record of
\* the same Exercise, NoneId if there is none.
prev_record(i) ==
    LET earlier == {j \in 1..(i - 1) : history[j].id = history[i].id}
    IN  IF earlier = {} THEN NoneId
        ELSE CHOOSE j \in earlier : \A k \in earlier : k <= j

ExerciseFields == {"name", "descLen", "language", "exercise_base"}

\* entry.diff_against(old): the fields whose values differ.
diff_against(i, j) ==
    {f \in ExerciseFields : history[i].row[f] # history[j].row[f]}

\* Exercise.history.all() is ordered newest first: position k of the
\* iteration is history[Len(history) + 1 - k].
RECURSIVE HistoryOut(_)
HistoryOut(k) ==
    IF k > Len(history) THEN <<>>
    ELSE LET i == Len(history) + 1 - k
         IN  (IF prev_record(i) # NoneId
              THEN <<[record |-> i, delta |-> diff_against(i, prev_record(i))]>>
              ELSE <<>>) \o HistoryOut(k + 1)

\* GET history/overview2
overview2 ==
    \E user \in Users :
        /\ Idle
        /\ request' = [handler |-> "overview2", user |-> user]
        /\ response' =
             IF permission_required(user, "exercises.change_exercise")
             THEN [handler |-> "overview2", status |-> 200, read |-> {"history"},
                   data |-> [kind |-> "html",
                             value |-> [template |-> "history/list2.html",
                                        history |-> HistoryOut(1)]]]
             ELSE LoginRedirect("overview2")
        /\ UNCHANGED <<exercises, stored, history, actstream, fragCache,
                       canonCache, call>>

\* --------------------------------------------------- Exercise.save and .delete

\* The cached template fragments save and delete invalidate.
Fragments == {"muscle-overview", "exercise-overview", "equipment-overview"}

\* manager.Setting rows: id -> its exercise base and, through
\* setting.set.exerciseday.training, its workout.
Setting ==
    (1 :> [exercise_base |-> 1, training |-> 1])
 @@ (2 :> [exercise_base |-> 1, training |-> 2])
 @@ (3 :> [exercise_base |-> 2, training |-> 3])

Workouts == {Setting[x].training : x \in DOMAIN Setting}

NoCall == [op |-> "none"]

\* The loop run for one language only (the first row instead of all()).
FragmentKeysFirstLanguage(languages) ==
    {<<f, l>> : f \in Fragments, l \in {x \in languages : \A y \in languages : x <= y}}

\* The keys the loop over Language.objects.all() deletes.
FragmentKeys(languages) == {<<f, l>> : f \in Fragments, l \in languages}

\* self.exercise_base.setting_set.all() -> the workouts to reset.
SettingWorkouts(base) ==
    {Setting[x].training : x \in {y \in DOMAIN Setting : Setting[y].exercise_base = base}}

\* The id the database gives the next inserted Exercise (never reused).
NextExerciseId ==
    Cardinality({i \in DOMAIN history : history[i].history_type = "+"}) + 1

\* What the caller of save/delete gets back; for a call made by an API
\* handler the handler goes on (perform_create / perform_update).
Outcome(c, raised) ==
    [handler |-> c.op, raised |-> raised, id |-> c.id,
     exercise_base |-> c.row.exercise_base, fragments |-> c.fragments,
     workouts |-> c.workouts, persisted |-> c.persisted, removed |-> c.removed]

\* super().save(): the INSERT or UPDATE, with the historical record that
\* simple_history writes on post_save.  language is NOT NULL.
Persist(id, row) ==
    /\ exercises' = (IF id = NoneId THEN NextExerciseId ELSE id) :> row @@ exercises
    /\ history' = Append(history,
                         [id |-> IF id = NoneId THEN NextExerciseId ELSE id,
                          history_type |-> IF id = NoneId THEN "+" ELSE "~",
                          row |-> row])

\* Exercise.save, first statement: super().save(*args, **kwargs)
SaveBegin(id, row, via) ==
    /\ call = NoCall
    /\ IF row.language = NoneId
       THEN /\ call' = [op |-> "save", step |-> "raise", id |-> id, row |-> row,
                        via |-> via, fragments |-> {}, workouts |-> {},
                        persisted |-> FALSE, removed |-> FALSE,
                        raised |-> "IntegrityError"]
            /\ UNCHANGED <<exercises, history>>
       ELSE /\ Persist(id, row)
            /\ call' = [op |-> "save", step |-> "fragments",
                        id |-> IF id = NoneId THEN NextExerciseId ELSE id,
                        row |-> row, via |-> via, fragments |-> {},
                        workouts |-> {}, persisted |-> TRUE, removed |-> FALSE,
                        raised |-> ""]

\* A delete that calls super().delete() first and runs the loops afterwards.
DeleteBeginRemoveFirst(id, via) ==
    /\ call = NoCall
    /\ call' = [op |-> "delete", step |-> "fragments", id |-> id,
                row |-> exercises[id], via |-> via, fragments |-> {},
                workouts |-> {}, persisted |-> FALSE, removed |-> TRUE,
                raised |-> ""]
    /\ exercises' = [e \in DOMAIN exercises \ {id} |-> exercises[e]]
    /\ history' = Append(history, [id |-> id, history_type |-> "-",
                                   row |-> exercises[id]])

\* Exercise.delete has nothing before its loops.
DeleteBegin(id, via) ==
    /\ call = NoCall
    /\ call' = [op |-> "delete", step |-> "fragments", id |-> id,
                row |-> exercises[id], via |-> via, fragments |-> {},
                workouts |-> {}, persisted |-> FALSE, removed |-> FALSE,
                raised |-> ""]
    /\ UNCHANGED <<exercises, history>>

\* for language in Language.objects.all(): delete_template_fragment_cache x 3
InvalidateFragments ==
    /\ call.op \in {"save", "delete"}
    /\ call.step = "fragments"
    /\ fragCache' = fragCache \ FragmentKeys(DOMAIN Language)
    /\ call' = [call EXCEPT !.step = "workouts",
                            !.fragments = FragmentKeys(DOMAIN Language)]
    /\ UNCHANGED <<exercises, stored, history, actstream, canonCache, request,
                   response>>

\* for setting in self.exercise_base.setting_set.all():
\*     reset_workout_canonical_form(...)
\* self.exercise_base is None for a row without base: AttributeError.
ResetWorkouts ==
    /\ call.op \in {"save", "delete"}
    /\ call.step = "workouts"
    /\ IF call.row.exercise_base = NoneId
       THEN /\ call' = [call EXCEPT !.step = "raise", !.raised = "AttributeError"]
            /\ UNCHANGED canonCache
       ELSE /\ canonCache' = canonCache \ SettingWorkouts(call.row.exercise_base)
            /\ call' = [call EXCEPT
                          !.step = IF call.op = "save" THEN "return" ELSE "remove",
                          !.workouts = SettingWorkouts(call.row.exercise_base)]
    /\ UNCHANGED <<exercises, stored, history, actstream, fragCache, request,
                   response>>

\* Exercise.delete, last statement: super().delete(*args, **kwargs), with the
\* historical record simple_history writes on post_delete and the cascade
\* to the aliases of the exercise.
RemoveRow ==
    /\ call.op = "delete"
    /\ call.step = "remove"
    /\ exercises' = [e \in DOMAIN exercises \ {call.id} |-> exercises[e]]
    /\ history' = Append(history, [id |-> call.id, history_type |-> "-",
                                   row |-> call.row])
    /\ stored' = [stored EXCEPT
                    !["alias"] = {a \in @ : Alias[a].exercise # call.id}]
    /\ call' = [call EXCEPT !.step = "return", !.removed = TRUE]
    /\ UNCHANGED <<actstream, fragCache, canonCache, request, response>>

\* save() / delete() called by code outside the API (admin views, commands):
\* the call returns or raises to that caller.
DirectReturn ==
    /\ call.op \in {"save", "delete"}
    /\ call.via = "direct"
    /\ call.step \in {"return", "raise"}
    /\ response' = Outcome(call, call.raised)
    /\ call' = NoCall
    /\ UNCHANGED <<exercises, stored, history, actstream, fragCache, canonCache,
                   request>>

\* Rows a caller may hand to save().
DirectRows ==
    [name : {<<"a">>}, descLen : {40}, language : {NoneId, 1},
     exercise_base : {NoneId, 1, 2}]

\* exercise.save() on a new instance (id NoneId) or on a loaded one, while
\* fewer than n historical records are written.
ModelSaveWithin(rows, n) ==
    \E id \in DOMAIN exercises \cup {NoneId}, row \in rows :
        /\ Idle
        /\ Len(history) < n
        /\ request' = [handler |-> "save", id |-> id, row |-> row]
        /\ SaveBegin(id, row, "direct")
        /\ UNCHANGED <<stored, actstream, fragCache, canonCache, response>>

ModelSaveOf(rows) == ModelSaveWithin(rows, MaxHistory)

ModelSave == ModelSaveOf(DirectRows)

\* A caller that saves a row with a description of 39 characters.
ShortRows ==
    [name : {<<"a">>}, descLen : {39}, language : {1}, exercise_base : {1}]

ModelSaveShort == ModelSaveOf(ShortRows)

\* exercise.delete() on a loaded instance, while fewer than n historical
\* records are written.
ModelDeleteWithin(n) ==
    \E id \in DOMAIN exercises :
        /\ Idle
        /\ Len(history) < n
        /\ request' = [handler |-> "delete", id |-> id]
        /\ DeleteBegin(id, "direct")
        /\ UNCHANGED <<stored, actstream, fragCache, canonCache, response>>

ModelDelete == ModelDeleteWithin(MaxHistory)

\* The edits made while the diff view is exercised: the name and the
\* language of a translation change.
RevisionRows ==
    [name : {<<"a">>, <<"b">>}, descLen : {40}, language : {1, 2},
     exercise_base : {1}]

ReviseSave == ModelSaveWithin(RevisionRows, MaxRevisions)

ReviseDelete == ModelDeleteWithin(MaxRevisions)

\* A page that caches a template fragment for a language is rendered.
RenderFragment ==
    \E k \in FragmentKeys(DOMAIN Language) :
        /\ k \notin fragCache
        /\ fragCache' = fragCache \cup {k}
        /\ UNCHANGED <<exercises, stored, history, actstream, canonCache, call,
                       request, response>>

\* A workout's canonical form is computed and cached.
ComputeCanonical ==
    \E w \in Workouts :
        /\ w \notin canonCache
        /\ canonCache' = canonCache \cup {w}
        /\ UNCHANGED <<exercises, stored, history, actstream, fragCache, call,
                       request, response>>

\* ------------------------------------------------------- the writable viewsets

Resources ==
    {"exercisebase", "translation", "exerciseimage", "exercisecomment", "alias",
     "variation"}

\* The viewsets deriving from CreateUpdateModelViewSet route POST and PUT;
\* ExerciseCommentViewSet is a ReadOnlyModelViewSet and routes neither.
RoutesWrites(r) == r # "exercisecomment"

\* The viewsets that define perform_create / perform_update with the
\* actstream send.
HasActionHooks(r) ==
    r \in {"exercisebase", "translation", "exerciseimage", "exercisecomment"}

\* CanEditExercises for an unsafe method: the requester may add exercises.
CanEditExercises(user) == has_perm(user, "exercises.add_exercise")

\* MinLengthValidator(40) of Exercise.description.
MinDescriptionLength == 40

\* The ids the rows of each other table take, in the order of creation.
Variation == (1 :> [id |-> 1])
ExerciseComment == (1 :> [exercise |-> 1])

RowIds(r) ==
    CASE r = "exercisebase" -> DOMAIN ExerciseBase
      [] r = "exerciseimage" -> DOMAIN ExerciseImage
      [] r = "alias" -> DOMAIN Alias
      [] r = "exercisecomment" -> DOMAIN ExerciseComment
      [] r = "variation" -> DOMAIN Variation

NextRowId(r) == Cardinality(stored[r]) + 1

\* A serializer that does not run the description validator.
TranslationErrorsNoMinLength(row) ==
    {f \in {"language"} : row.language = NoneId}

\* ExerciseTranslationSerializer.is_valid(): the field errors.  The
\* validators of the model fields run; language is required, exercise_base
\* (null=True) is not.
TranslationErrors(row) ==
    {f \in {"description"} : row.descLen < MinDescriptionLength}
    \cup {f \in {"language"} : row.language = NoneId}

\* The serializers of the other resources: the related row must exist.
RowErrors(r, id) ==
    CASE r = "alias" -> {f \in {"exercise"} : Alias[id].exercise \notin DOMAIN exercises}
      [] r = "exerciseimage" ->
            {f \in {"exercise_base"} :
                ExerciseImage[id].exercise_base \notin stored["exercisebase"]}
      [] OTHER -> {}

Rejected(name, status, errors) ==
    [handler |-> name, status |-> status, errors |-> errors, saves |-> 0,
     id |-> NoneId]

\* actstream_action.send(self.request.user, verb=.., action_object=serializer.instance)
action_send(user, verb, r, id) ==
    actstream' = Append(actstream,
                        [actor |-> user, verb |-> verb, action_object |-> <<r, id>>])

\* perform_create / perform_update of a viewset other than the translation
\* one: super().perform_create(serializer) is serializer.save(), then the
\* send where the viewset defines the hook.
PerformWrite(name, verb, r, user, id) ==
    /\ stored' = [stored EXCEPT ![r] = @ \cup {id}]
    /\ IF HasActionHooks(r) THEN action_send(user, verb, r, id)
       ELSE UNCHANGED actstream
    /\ response' = [handler |-> name, status |-> IF name = "create" THEN 201 ELSE 200,
                    errors |-> {}, saves |-> 1, id |-> id]
    /\ UNCHANGED <<exercises, history, call>>

\* The request bodies sent for a translation: valid with and without base,
\* description one character short, language missing.
ApiRows ==
    {[name |-> <<"a">>, descLen |-> 40, language |-> 1, exercise_base |-> 1],
     [name |-> <<"a">>, descLen |-> 40, language |-> 1, exercise_base |-> NoneId],
     [name |-> <<"a">>, descLen |-> 39, language |-> 1, exercise_base |-> 1],
     [name |-> <<"a">>, descLen |-> 40, language |-> NoneId, exercise_base |-> 1]}

\* The requesters of the writable endpoints.
ApiUsers == {"editor", "guest"}

\* POST /api/v2/<resource>/
ApiCreate ==
    \E r \in Resources, user \in ApiUsers, row \in ApiRows :
        /\ Idle
        /\ call = NoCall
        /\ Len(actstream) < MaxLog
        /\ r = "translation" => Len(history) < MaxHistory
        /\ r # "translation" => row = CHOOSE x \in ApiRows : TRUE
        /\ request' = [handler |-> "create", resource |-> r, user |-> user,
                       id |-> NoneId, row |-> row]
        /\ IF ~CanEditExercises(user)
           THEN /\ response' = Rejected("create", 403, {})
                /\ UNCHANGED <<exercises, stored, history, actstream, call>>
           ELSE IF ~RoutesWrites(r)
           THEN /\ response' = Rejected("create", 405, {})
                /\ UNCHANGED <<exercises, stored, history, actstream, call>>
           ELSE IF r = "translation"
           THEN IF TranslationErrors(row) # {}
                THEN /\ response' = Rejected("create", 400, TranslationErrors(row))
                     /\ UNCHANGED <<exercises, stored, history, actstream, call>>
                ELSE /\ SaveBegin(NoneId, row, "create")
                     /\ UNCHANGED <<stored, actstream, response>>
           ELSE IF NextRowId(r) \notin RowIds(r)
           THEN /\ response' = Rejected("create", 400, {"id"})
                /\ UNCHANGED <<exercises, stored, history, actstream, call>>
           ELSE IF RowErrors(r, NextRowId(r)) # {}
           THEN /\ response' = Rejected("create", 400, RowErrors(r, NextRowId(r)))
                /\ UNCHANGED <<exercises, stored, history, actstream, call>>
           ELSE PerformWrite("create", "created", r, user, NextRowId(r))
        /\ UNCHANGED <<fragCache, canonCache>>

\* PUT /api/v2/<resource>/<id>/
ApiUpdate ==
    \E r \in Resources, user \in ApiUsers, id \in 1..2, row \in ApiRows :
        /\ Idle
        /\ call = NoCall
        /\ Len(actstream) < MaxLog
        /\ r = "translation" => Len(history) < MaxHistory
        /\ r # "translation" => row = CHOOSE x \in ApiRows : TRUE
        /\ request' = [handler |-> "update", resource |-> r, user |-> user,
                       id |-> id, row |-> row]
        /\ IF ~CanEditExercises(user)
           THEN /\ response' = Rejected("update", 403, {})
                /\ UNCHANGED <<exercises, stored, history, actstream, call>>
           ELSE IF ~RoutesWrites(r)
           THEN /\ response' = Rejected("update", 405, {})
                /\ UNCHANGED <<exercises, stored, history, actstream, call>>
           ELSE IF r = "translation"
           THEN IF id \notin DOMAIN exercises
                THEN /\ response' = Rejected("update", 404, {})
                     /\ UNCHANGED <<exercises, stored, history, actstream, call>>
                ELSE IF TranslationErrors(row) # {}
                THEN /\ response' = Rejected("update", 400, TranslationErrors(row))
                     /\ UNCHANGED <<exercises, stored, history, actstream, call>>
                ELSE /\ SaveBegin(id, row, "update")
                     /\ UNCHANGED <<stored, actstream, response>>
           ELSE IF id \notin stored[r]
           THEN /\ response' = Rejected("update", 404, {})
                /\ UNCHANGED <<exercises, stored, history, actstream, call>>
           ELSE IF RowErrors(r, id) # {}
           THEN /\ response' = Rejected("update", 400, RowErrors(r, id))
                /\ UNCHANGED <<exercises, stored, history, actstream, call>>
           ELSE PerformWrite("update", "updated", r, user, id)
        /\ UNCHANGED <<fragCache, canonCache>>

\* The hooks with the send in a finally clause: it runs whether or not
\* super().perform_create(serializer) returned.
ApiReturnSendsAlways ==
    /\ call.op = "save"
    /\ call.via \in {"create", "update"}
    /\ call.step \in {"return", "raise"}
    /\ action_send(request.user,
                   IF call.via = "create" THEN "created" ELSE "updated",
                   "translation", call.id)
    /\ response' = [handler |-> call.via,
                    status |-> IF call.step = "raise" THEN 500
                               ELSE IF call.via = "create" THEN 201 ELSE 200,
                    errors |-> IF call.step = "raise" THEN {call.raised} ELSE {},
                    saves |-> IF call.persisted THEN 1 ELSE 0,
                    id |-> call.id]
    /\ call' = NoCall
    /\ UNCHANGED <<exercises, stored, history, fragCache, canonCache, request>>

\* ExerciseTranslationViewSet.perform_create / perform_update after
\* super().perform_create(serializer) has returned: the actstream send.  If
\* Exercise.save raised, the exception leaves the handler: no send, a 500.
ApiReturn ==
    /\ call.op = "save"
    /\ call.via \in {"create", "update"}
    /\ call.step \in {"return", "raise"}
    /\ IF call.step = "return"
       THEN /\ action_send(request.user,
                           IF call.via = "create" THEN HistoryModes.CREATED
                           ELSE HistoryModes.UPDATED,
                           "translation", call.id)
            /\ response' = [handler |-> call.via,
                            status |-> IF call.via = "create" THEN 201 ELSE 200,
                            errors |-> {}, saves |-> 1, id |-> call.id]
       ELSE /\ UNCHANGED actstream
            /\ response' = [handler |-> call.via, status |-> 500,
                            errors |-> {call.raised},
                            saves |-> IF call.persisted THEN 1 ELSE 0,
                            id |-> call.id]
    /\ call' = NoCall
    /\ UNCHANGED <<exercises, stored, history, fragCache, canonCache, request>>

\* ------------------------------------------------------------- specifications

InitData ==
    /\ exercises = <<>>
    /\ stored = [exercisebase |-> {1, 2}, exerciseimage |-> {}, alias |-> {},
                 exercisecomment |-> {}, variation |-> {}]
    /\ history = <<>>
    /\ actstream = <<>>
    /\ fragCache = {}
    /\ canonCache = {}
    /\ call = NoCall
    /\ request = NoRequest
    /\ response = NoRequest

\* The data layer: Exercise.save and Exercise.delete, and the caches.
Next ==
    \/ ModelSave
    \/ ModelDelete
    \/ InvalidateFragments
    \/ ResetWorkouts
    \/ RemoveRow
    \/ DirectReturn
    \/ RenderFragment
    \/ ComputeCanonical
    \/ Deliver

Spec == InitData /\ [][Next]_vars

InitApi ==
    /\ exercises = <<>>
    /\ stored = [exercisebase |-> {1, 2}, exerciseimage |-> {1}, alias |-> {},
                 exercisecomment |-> {}, variation |-> {}]
    /\ history = <<>>
    /\ actstream = <<>>
    /\ fragCache = {}
    /\ canonCache = {}
    /\ call = NoCall
    /\ request = NoRequest
    /\ response = NoRequest

\* The writable endpoints, with Exercise.save underneath.
NextApi ==
    \/ ApiCreate
    \/ ApiUpdate
    \/ ApiReturn
    \/ ModelSaveShort
    \/ DirectReturn
    \/ InvalidateFragments
    \/ ResetWorkouts
    \/ Deliver

SpecApi == InitApi /\ [][NextApi]_vars

InitQuery ==
    /\ exercises \in {QueryExercises(b) : b \in {3, NoneId}}
    /\ stored = QueryStored
    /\ history = QueryHistory(exercises)
    /\ actstream = QueryStream
    /\ fragCache = {}
    /\ canonCache = {}
    /\ call = NoCall
    /\ request = NoRequest
    /\ response = NoRequest

\* The read-only endpoints and views.
NextQuery ==
    \/ ExerciseList
    \/ search
    \/ thumbnails
    \/ overview
    \/ overview2
    \/ Deliver

SpecQuery == InitQuery /\ [][NextQuery]_vars

\* The diff view over a history that grows: exercises are created, edited
\* and deleted between the requests.
NextHistory ==
    \/ ReviseSave
    \/ ReviseDelete
    \/ InvalidateFragments
    \/ ResetWorkouts
    \/ RemoveRow
    \/ DirectReturn
    \/ overview2
    \/ Deliver

SpecHistory == InitData /\ [][NextHistory]_vars

\* --------------------------------------------------------------------- claims

\* The filter parameter f of the request is supplied and is not a valid
\* integer (list of integers).
InvalidParam(params, f) ==
    /\ Truthy(params[f])
    /\ IF f \in ScalarParams THEN ~IntOk(params[f])
       ELSE \E part \in Range(Split(params[f], ",")) : ~IntOk(part)

\* Exercise e satisfies the filter f = v.
MatchesParam(e, f, v) ==
    /\ exercises[e].exercise_base # NoneId
    /\ IF f \in ScalarParams
       THEN ExerciseBase[exercises[e].exercise_base][f] = IntValue(v)
       ELSE ExerciseBase[exercises[e].exercise_base][f] \cap IntList(v) # {}

\* C1: in get_queryset a filter parameter that is not a valid integer (or has
\* an element that is not) is left unapplied and the request does not fail:
\* the result is the one of the same request without that parameter, and it
\* holds exactly the exercises that satisfy every other supplied filter.
C1_InvalidFilterUnapplied ==
    response.handler = "exercise-list" =>
        LET p == request.params
            bad == {f \in FilterParams : InvalidParam(p, f)}
        IN  /\ response.status = 200
            /\ \A e \in DOMAIN exercises :
                  response.body[e] > 0 <=>
                      \A f \in FilterParams \ bad :
                          Truthy(p[f]) => MatchesParam(e, f, p[f])
            /\ \A f \in bad : response.body = get_queryset([p EXCEPT ![f] = None])

\* A list with a bad element next to a valid filter that excludes a row.
C1_Witness ==
    /\ response.handler = "exercise-list"
    /\ request.params.muscles = <<"1", ",", "x">>
    /\ request.params.category = <<"1">>
    /\ request.params.equipment = <<"+", "1", ",", "2">>
    /\ \E e \in DOMAIN exercises : response.body[e] > 0
    /\ \E e \in DOMAIN exercises : response.body[e] = 0

\* C2: the search action with an empty or missing term answers
\* {"suggestions": []}.
C2_EmptyTermSuggestions ==
    (response.handler = "search" /\ ~Truthy(request.term)) =>
        /\ response.data.kind = "dict"
        /\ DOMAIN response.data.value = {"suggestions"}
        /\ response.data.value["suggestions"] = <<>>

\* C3: thumbnails for an image id that resolves to no ExerciseImage answers
\* an empty mapping with a success status, not an error.
C3_ThumbnailsMissEmptyMapping ==
    (response.handler = "thumbnails" /\ GetImage(request.pk).id = NoneId) =>
        /\ response.status = 200
        /\ response.data.kind = "dict"
        /\ DOMAIN response.data.value = {}

\* C4: every successful create or update of a mutable API resource appends
\* exactly one activity stream entry, verb created resp. updated, the
\* requester as actor and the written instance as action object, and
\* persists the instance once.
C4_WritesLogged ==
    [][(/\ response' # response
        /\ response'.handler \in {"create", "update"}
        /\ response'.status \in {200, 201})
       => /\ actstream' =
               Append(actstream,
                      [actor |-> request'.user,
                       verb |-> IF response'.handler = "create" THEN "created"
                                ELSE "updated",
                       action_object |-> <<request'.resource, response'.id>>])
          /\ response'.saves = 1]_vars

\* C5: when Exercise.save returns, each of the three overview fragments has
\* been invalidated for every Language: three invalidations per language.
C5_SaveInvalidatesFragments ==
    (response.handler = "save" /\ response.raised = "") =>
        /\ \A l \in DOMAIN Language :
              \A f \in {"muscle-overview", "exercise-overview", "equipment-overview"} :
                  <<f, l>> \in response.fragments
        /\ Cardinality(response.fragments) = 3 * Cardinality(DOMAIN Language)

\* A save of a stored row with a base has returned.
C5_Witness ==
    /\ response.handler = "save"
    /\ response.raised = ""
    /\ response.persisted
    /\ response.id \in DOMAIN exercises

\* C6: Exercise.delete, for any stored Exercise (one without exercise_base
\* included), resets the canonical form of every workout reachable from its
\* base and removes the row.
C6_DeleteResetsAndRemoves ==
    response.handler = "delete" =>
        /\ response.raised = ""
        /\ response.id \notin DOMAIN exercises
        /\ \A x \in DOMAIN Setting :
              Setting[x].exercise_base = response.exercise_base
                  => Setting[x].training \in response.workouts

\* C7: every stored Exercise references an ExerciseBase and a Language.
C7_ExerciseHasBaseAndLanguage ==
    \A e \in DOMAIN exercises :
        /\ exercises[e].exercise_base # NoneId
        /\ exercises[e].language # NoneId

Suggested(e) ==
    Cardinality({i \in DOMAIN response.data.value["suggestions"] :
                    response.data.value["suggestions"][i].data.id = e})

\* Exercise e, in a language shown to the request, matches the term by its
\* name and by an alias.
NameAndAliasMatch(e) ==
    /\ exercises[e].language \in load_item_languages(request.language)
    /\ IContains(exercises[e].name, request.term)
    /\ \E a \in stored["alias"] :
          Alias[a].exercise = e /\ IContains(Alias[a].alias, request.term)

\* C9: for a non-empty term, an exercise (of a shown language) that matches
\* by name and by alias is in the suggestions exactly once, and every
\* suggestion is an exercise of a shown language.
C9_SearchOnceInShownLanguages ==
    (response.handler = "search" /\ Truthy(request.term)) =>
        /\ response.status = 200
        /\ "suggestions" \in DOMAIN response.data.value
        /\ \A e \in DOMAIN exercises : NameAndAliasMatch(e) => Suggested(e) = 1
        /\ \A i \in DOMAIN response.data.value["suggestions"] :
              exercises[response.data.value["suggestions"][i].data.id].language
                  \in load_item_languages(request.language)

\* What C9 says, for the searches that are answered: used to check the model
\* of the query (DISTINCT over the alias join).
SearchAnsweredOnce ==
    (response.handler = "search" /\ Truthy(request.term) /\ response.status = 200) =>
        /\ \A e \in DOMAIN exercises : NameAndAliasMatch(e) => Suggested(e) = 1
        /\ \A e \in DOMAIN exercises : Suggested(e) <= 1

\* C10: overview and overview2 render only for a requester who holds
\* exercises.change_exercise; any other requester is redirected and neither
\* the activity stream nor the historical records have been read.
C10_HistoryViewsGated ==
    response.handler \in {"overview", "overview2"} =>
        IF "exercises.change_exercise" \in UserPermissions[request.user]
        THEN response.status = 200 /\ response.data.kind = "html"
        ELSE /\ response.status = 302
             /\ response.read = {}
             /\ response.data.kind = "redirect"

\* A requester who may add but not change exercises asked for the diff view,
\* with revisions to show, and was redirected.
C10_Witness ==
    /\ response.handler = "overview2"
    /\ request.user = "editor"
    /\ response.status = 302
    /\ \E i \in DOMAIN history : prev_record(i) # NoneId

\* The historical records of the same Exercise written before history[i].
EarlierRevisions(i) == {j \in 1..(i - 1) : history[j].id = history[i].id}

\* The entries of the rendered list that hold history[i].
EntriesOf(out, i) == {k \in 1..Len(out) : out[k].record = i}

\* C11: when overview2 renders, its list holds exactly one entry for every
\* historical record of Exercise that has an earlier record of the same
\* Exercise, and none for a record without one (the first of each
\* Exercise); the entry holds the record and the set of fields that differ
\* from the latest earlier record of that Exercise.
C11_OneDiffPerLaterRevision ==
    (response.handler = "overview2" /\ response.status = 200) =>
        LET out == response.data.value.history
        IN  /\ \A i \in 1..Len(history) :
                  Cardinality(EntriesOf(out, i)) =
                      IF EarlierRevisions(i) # {} THEN 1 ELSE 0
            /\ \A k \in 1..Len(out) :
                  /\ out[k].record \in 1..Len(history)
                  /\ \E j \in EarlierRevisions(out[k].record) :
                        /\ \A m \in EarlierRevisions(out[k].record) : m <= j
                        /\ out[k].delta =
                             {f \in ExerciseFields :
                                 history[out[k].record].row[f] # history[j].row[f]}

\* The view rendered a history in which one Exercise has three revisions
\* that all differ: two entries, the later one against the second revision
\* and not the first.
C11_Witness ==
    /\ response.handler = "overview2"
    /\ response.status = 200
    /\ Len(history) = 3
    /\ \A i \in 1..3 : history[i].id = 1
    /\ history[1].row.name # history[2].row.name
    /\ history[2].row.language # history[3].row.language
    /\ history[2].row.name = history[3].row.name
    /\ history[1].row.language = history[2].row.language
    /\ Len(response.data.value.history) = 2
    /\ \E k \in 1..2 :
          /\ response.data.value.history[k].record = 3
          /\ response.data.value.history[k].delta = {"language"}

\* C12: the activity stream only grows, by appending; a create or update
\* request answered with anything but success (refused permission, method
\* not routed, unknown id, validation errors, or an exception out of the
\* save) leaves it as it was; and an entry is appended only in the step in
\* which the save of the written instance has returned.
C12_FailedWritesNotLogged ==
    [][/\ Len(actstream') >= Len(actstream)
       /\ SubSeq(actstream', 1, Len(actstream)) = actstream
       /\ (/\ response' # response
           /\ response'.handler \in {"create", "update"}
           /\ response'.status \notin {200, 201})
          => actstream' = actstream
       /\ actstream' # actstream =>
             IF request'.handler \in {"create", "update"}
             THEN /\ Len(actstream') = Len(actstream) + 1
                  /\ IF request'.resource = "translation"
                     THEN /\ call.op = "save"
                          /\ call.step = "return"
                          /\ call.id \in DOMAIN exercises
                          /\ exercises[call.id] = call.row
                     ELSE actstream'[Len(actstream')].action_object[2]
                              \in stored'[request'.resource]
             ELSE FALSE]_vars

\* After one logged write, a create was stored by Exercise.save, which then
\* raised: the request is answered with a server error and the stream still
\* holds the one entry.
C12_Witness ==
    /\ response.handler = "create"
    /\ response.status = 500
    /\ response.saves = 1
    /\ request.resource = "translation"
    /\ Len(actstream) = 1
    /\ Len(history) = 2

\* A step of the running save or delete invalidates cache entries.
Invalidates ==
    /\ call.op \in {"save", "delete"}
    /\ call'.op = call.op
    /\ \/ call'.fragments # call.fragments
       \/ call'.workouts # call.workouts

\* C13: Exercise.save stores the row in its first step, before anything is
\* invalidated, and every invalidation of a save happens with the row
\* stored; a save that could not store the row ends having invalidated
\* nothing.  Exercise.delete invalidates while the row is still stored and
\* removes it in its last step, after every fragment key and every workout
\* of the base has been invalidated, leaving the caches as they are; a
\* delete that raised has removed nothing.
C13_PersistFirstRemoveLast ==
    [][/\ (call'.op = "save" /\ call.op # "save") =>
             /\ call'.fragments = {} /\ call'.workouts = {}
             /\ fragCache' = fragCache /\ canonCache' = canonCache
             /\ IF call'.persisted
                THEN exercises'[call'.id] = call'.row /\ Len(history') = Len(history) + 1
                ELSE call'.step = "raise" /\ exercises' = exercises
       /\ (call.op = "save" /\ call'.op = "save") => exercises' = exercises
       /\ (Invalidates /\ call.op = "save") =>
             /\ call.persisted
             /\ exercises[call.id] = call.row
       /\ (response' # response /\ response'.handler = "save") =>
             (~response'.persisted =>
                 response'.fragments = {} /\ response'.workouts = {})
       /\ (Invalidates /\ call.op = "delete") =>
             /\ call.id \in DOMAIN exercises
             /\ exercises' = exercises
       /\ ~(DOMAIN exercises \subseteq DOMAIN exercises') =>
             /\ call.op = "delete"
             /\ DOMAIN exercises' = DOMAIN exercises \ {call.id}
             /\ call.fragments = FragmentKeys(DOMAIN Language)
             /\ call.workouts = SettingWorkouts(call.row.exercise_base)
             /\ call'.step = "return"
             /\ fragCache' = fragCache /\ canonCache' = canonCache
       /\ (response' # response /\ response'.handler = "delete") =>
             (response'.raised # "" =>
                 /\ ~response'.removed
                 /\ response'.id \in DOMAIN exercises')]_vars

\* A delete has invalidated the fragments and the workouts of the base, a
\* fragment and a workout of that base were cached again since, and the row
\* is still stored: its removal comes next and leaves these entries.
C13_Witness ==
    /\ call.op = "delete"
    /\ call.step = "remove"
    /\ call.id \in DOMAIN exercises
    /\ call.fragments \cap fragCache # {}
    /\ call.workouts \cap canonCache # {}

====
